---- MODULE Spec2Model ----
(***************************************************************************)
(* Model of src/new_updater.py: WindowsUpdater.update() and the file       *)
(* operations it performs on the five paths fixed by __init__.             *)
(*                                                                         *)
(* File contents are byte strings, modelled as sequences of byte values.   *)
(* A file system maps each path to a record [exists, content].  Every file *)
(* operation (Path.exists, read_bytes, shutil.copy2, write_bytes) is one   *)
(* step of update(); its outcome (success, or one of the ways the library  *)
(* call can fail) is chosen by the environment.                            *)
(***************************************************************************)
EXTENDS Integers, Sequences, FiniteSets, TLC

VARIABLES
    fs,       \* the file system: path -> [exists, content]
    pc,       \* position of the current invocation inside update()
    content,  \* local `content` of _update_dependencies_file
    ret,      \* outcome of the current invocation: "none", "true", "false", "raised"
    out,      \* lines printed by the current invocation
    ops,      \* file operations performed by the current invocation, in order
    fault,    \* the I/O failure the environment injected in this invocation
    fs0,      \* the file system when the current invocation was called
    hist      \* one record per finished invocation

vars == <<fs, pc, content, ret, out, ops, fault, fs0, hist>>

---------------------------------------------------------------------------
(* Bounds *)

\* invocations of update() in one behaviour
MaxRuns == 2
\* pieces concatenated to form the initial dependency batch file
MaxPieces == 3

---------------------------------------------------------------------------
(* Class constants, as byte values *)

\* b"..\\python_embeded\\python.exe .\\update.py"
EXPECTED_BAT_PREFIX ==
    <<46, 46, 92, 112, 121, 116, 104, 111, 110, 95, 101, 109, 98, 101, 100,
      101, 100, 92, 112, 121, 116, 104, 111, 110, 46, 101, 120, 101, 32, 46,
      92, 117, 112, 100, 97, 116, 101, 46, 112, 121>>

\* b'..\\python_embeded\\python.exe .\\update.py ..\\ComfyUI\\'
OLD_CONTENT ==
    <<46, 46, 92, 112, 121, 116, 104, 111, 110, 95, 101, 109, 98, 101, 100,
      101, 100, 92, 112, 121, 116, 104, 111, 110, 46, 101, 120, 101, 32, 46,
      92, 117, 112, 100, 97, 116, 101, 46, 112, 121, 32, 46, 46, 92, 67, 111,
      109, 102, 121, 85, 73, 92>>

\* b'call update_comfyui.bat nopause'
NEW_CONTENT ==
    <<99, 97, 108, 108, 32, 117, 112, 100, 97, 116, 101, 95, 99, 111, 109,
      102, 121, 117, 105, 46, 98, 97, 116, 32, 110, 111, 112, 97, 117, 115,
      101>>

---------------------------------------------------------------------------
(* Paths *)

Sources == {"source_updater", "source_bat"}
Dests   == {"dest_updater", "dest_bat", "dest_bat_deps"}
Paths   == Sources \cup Dests

Absent  == [exists |-> FALSE, content |-> <<>>]
File(c) == [exists |-> TRUE, content |-> c]

---------------------------------------------------------------------------
(* bytes.startswith and bytes.replace *)

\* variant: the prefix found anywhere in the content
StartsWith_Anywhere(c, p) ==
    \E i \in 1..(Len(c) - Len(p) + 1) : SubSeq(c, i, i + Len(p) - 1) = p

StartsWith(c, p) == Len(c) >= Len(p) /\ SubSeq(c, 1, Len(p)) = p

\* first position at or after 1 where `old` occurs in c, or 0
Find(c, old) ==
    LET hits == { i \in 1..(Len(c) - Len(old) + 1) :
                     SubSeq(c, i, i + Len(old) - 1) = old }
    IN  IF hits = {} THEN 0 ELSE CHOOSE h \in hits : \A g \in hits : h <= g

\* variant: only the first occurrence is replaced
Replace_FirstOnly(c, old, new) ==
    LET i == Find(c, old)
    IN  IF i = 0 THEN c
        ELSE SubSeq(c, 1, i - 1) \o new \o SubSeq(c, i + Len(old), Len(c))

RECURSIVE Replace(_, _, _)
\* occurrences of a non-empty `old` are taken left to right, each search
\* resuming after the previous occurrence
Replace(c, old, new) ==
    LET i == Find(c, old)
    IN  IF i = 0 THEN c
        ELSE SubSeq(c, 1, i - 1) \o new
               \o Replace(SubSeq(c, i + Len(old), Len(c)), old, new)

---------------------------------------------------------------------------
(* Initial file systems *)

CRLF == <<13, 10>>

\* b"@echo off\r\n"
ECHO_OFF == <<64, 101, 99, 104, 111, 32, 111, 102, 102, 13, 10>>

\* the updater script shipped with the release, and the one installed before
NewUpdaterPy == <<35, 50>>
OldUpdaterPy == <<35, 49>>

\* the launcher batch shipped with the release: one that no longer starts
\* with the legacy invocation, and one that still does
SourceBatContents == { ECHO_OFF \o OLD_CONTENT \o CRLF, OLD_CONTENT \o CRLF }

\* the installed launcher batch (the sentinel)
SentinelContents ==
    { OLD_CONTENT \o CRLF,                    \* legacy launcher
      EXPECTED_BAT_PREFIX,                    \* exactly the prefix
      SubSeq(EXPECTED_BAT_PREFIX, 1, Len(EXPECTED_BAT_PREFIX) - 1),
      ECHO_OFF \o OLD_CONTENT \o CRLF }       \* prefix present, not at the start

\* the dependency batch file is made of legacy invocations and of lines
\* that start like one without being one
DepsPieces == { OLD_CONTENT, EXPECTED_BAT_PREFIX \o CRLF }

RECURSIVE Concat(_)
Concat(ps) == IF ps = <<>> THEN <<>> ELSE Head(ps) \o Concat(Tail(ps))

DepsContents ==
    { Concat(ps) : ps \in UNION { [1..n -> DepsPieces] : n \in 0..MaxPieces } }

InitialFS ==
    { [p \in Paths |->
         CASE p = "source_updater" -> su
           [] p = "source_bat"     -> sb
           [] p = "dest_updater"   -> du
           [] p = "dest_bat"       -> db
           [] p = "dest_bat_deps"  -> dd] :
      su \in {Absent, File(NewUpdaterPy)},
      sb \in {Absent} \cup { File(c) : c \in SourceBatContents },
      du \in {Absent, File(OldUpdaterPy)},
      db \in {Absent} \cup { File(c) : c \in SentinelContents },
      dd \in {Absent} \cup { File(c) : c \in DepsContents } }

Init ==
    /\ fs \in InitialFS
    /\ pc = "idle"
    /\ content = <<>>
    /\ ret = "none"
    /\ out = <<>>
    /\ ops = <<>>
    /\ fault = "none"
    /\ fs0 = fs
    /\ hist = <<>>

---------------------------------------------------------------------------
(* Outcomes of the library calls *)

\* Path.exists(): stat() succeeds; or fails with "no such file"; or fails
\* with another OSError, which pathlib either re-raises or reports as False
\* depending on the Python version.
ExistsOutcomes(p) ==
    IF fs[p].exists THEN {"found", "missing", "error"} ELSE {"missing", "error"}

\* Path.read_bytes(): the content, or an OSError
ReadOutcomes(p) == IF fs[p].exists THEN {"ok", "fail"} ELSE {"fail"}

\* shutil.copy2(): copyfile then copystat.  It can fail before the
\* destination is opened ("open"), after it was truncated ("write"), or in
\* copystat after the content was copied ("stat").
CopyOutcomes(src) ==
    IF fs[src].exists THEN {"ok", "open", "write", "stat"} ELSE {"open"}

\* Path.write_bytes(): open(mode='wb') then write
WriteOutcomes == {"ok", "open", "write"}

\* variant: the arguments of the copy are exchanged
CopyResult_Swapped(src, dst, o) ==
    CASE o = "ok"    -> IF fs[dst].exists
                        THEN [fs EXCEPT ![src] = File(fs[dst].content)]
                        ELSE fs
      [] o = "stat"  -> [fs EXCEPT ![src] = File(fs[dst].content)]
      [] o = "write" -> [fs EXCEPT ![src] = File(<<>>)]
      [] o = "open"  -> fs

\* variant: a destination that already exists is not overwritten
CopyResult_KeepExisting(src, dst, o) ==
    CASE o = "ok"    -> IF fs[dst].exists THEN fs
                        ELSE [fs EXCEPT ![dst] = File(fs[src].content)]
      [] o = "stat"  -> [fs EXCEPT ![dst] = File(fs[src].content)]
      [] o = "write" -> [fs EXCEPT ![dst] = File(<<>>)]
      [] o = "open"  -> fs

CopyResult(src, dst, o) ==
    CASE o = "ok"    -> [fs EXCEPT ![dst] = File(fs[src].content)]
      [] o = "stat"  -> [fs EXCEPT ![dst] = File(fs[src].content)]
      [] o = "write" -> [fs EXCEPT ![dst] = File(<<>>)]
      [] o = "open"  -> fs

WriteResult(p, data, o) ==
    CASE o = "ok"    -> [fs EXCEPT ![p] = File(data)]
      [] o = "write" -> [fs EXCEPT ![p] = File(<<>>)]
      [] o = "open"  -> fs

---------------------------------------------------------------------------
(* Printed lines *)

Success == [kind |-> "success", cause |-> "none", path |-> "none"]
Failed(cause, p) == [kind |-> "failed", cause |-> cause, path |-> p]
Warning(p) == [kind |-> "warning", cause |-> "write", path |-> p]

Op(op, p, o) == [op |-> op, path |-> p, outcome |-> o]

\* the invocation ends with result r after a last operation recorded as f
Finish(r, lines, f) ==
    /\ pc' = "done"
    /\ ret' = r
    /\ out' = out \o lines
    /\ fault' = f
    /\ hist' = Append(hist, [start |-> fs0, ret |-> r, fault |-> f])

Continue(next) ==
    /\ pc' = next
    /\ UNCHANGED <<ret, out, fault, hist>>

---------------------------------------------------------------------------
(* update() *)

Call ==
    /\ pc \in {"idle", "done"}
    /\ Len(hist) < MaxRuns
    /\ pc' = "validate_updater"
    /\ fs0' = fs
    /\ content' = <<>>
    /\ ret' = "none"
    /\ out' = <<>>
    /\ ops' = <<>>
    /\ fault' = "none"
    /\ UNCHANGED <<fs, hist>>

\* variant: a missing source ends the update without a printed line
Validate_Silent(p, next) ==
    \E o \in ExistsOutcomes(p) :
        /\ ops' = Append(ops, Op("exists", p, o))
        /\ CASE o = "found"   -> Continue(next)
             [] o = "missing" ->
                    Finish("false", <<>>, IF fs[p].exists THEN "exists" ELSE "none")
             [] o = "error"   -> Finish("raised", <<>>, "exists")
        /\ UNCHANGED <<fs, content, fs0>>

\* one `if not p.exists(): raise UpdaterError(...)` of _validate_paths,
\* with the `except UpdaterError` of update()
Validate(p, next) ==
    \E o \in ExistsOutcomes(p) :
        /\ ops' = Append(ops, Op("exists", p, o))
        /\ CASE o = "found"   -> Continue(next)
             [] o = "missing" ->
                    Finish("false", <<Failed("source_missing", p)>>,
                           IF fs[p].exists THEN "exists" ELSE "none")
             [] o = "error"   -> Finish("raised", <<>>, "exists")
        /\ UNCHANGED <<fs, content, fs0>>

ValidateUpdater == pc = "validate_updater" /\ Validate("source_updater", "validate_bat")

ValidateBat == pc = "validate_bat" /\ Validate("source_bat", "should_update")

\* variant: an ineligible installation is reported as updated
ShouldUpdate_ReturnsTrue ==
    /\ pc = "should_update"
    /\ \E o \in ReadOutcomes("dest_bat") :
        /\ ops' = Append(ops, Op("read", "dest_bat", o))
        /\ IF o = "ok" /\ StartsWith(fs["dest_bat"].content, EXPECTED_BAT_PREFIX)
           THEN Continue("copy_updater")
           ELSE Finish("true", <<>>,
                       IF o = "fail" /\ fs["dest_bat"].exists THEN "read" ELSE "none")
    /\ UNCHANGED <<fs, content, fs0>>

ShouldUpdate ==
    /\ pc = "should_update"
    /\ \E o \in ReadOutcomes("dest_bat") :
        /\ ops' = Append(ops, Op("read", "dest_bat", o))
        /\ IF o = "ok" /\ StartsWith(fs["dest_bat"].content, EXPECTED_BAT_PREFIX)
           THEN Continue("copy_updater")
           ELSE Finish("false", <<>>,
                       IF o = "fail" /\ fs["dest_bat"].exists THEN "read" ELSE "none")
    /\ UNCHANGED <<fs, content, fs0>>

\* one shutil.copy2 of _copy_files, with its except clause and the
\* `except UpdaterError` of update()
\* variant: a failed copy is swallowed and the sequence goes on
Copy_Swallow(src, dst, next) ==
    \E o \in CopyOutcomes(src) :
        /\ ops' = Append(ops, Op("copy", dst, o))
        /\ fs' = CopyResult(src, dst, o)
        /\ Continue(next)
        /\ UNCHANGED <<content, fs0>>

Copy(src, dst, next) ==
    \E o \in CopyOutcomes(src) :
        /\ ops' = Append(ops, Op("copy", dst, o))
        /\ fs' = CopyResult(src, dst, o)
        /\ IF o = "ok"
           THEN Continue(next)
           ELSE Finish("false", <<Failed("copy", dst)>>, "copy")
        /\ UNCHANGED <<content, fs0>>

\* variant: the first copy is the one of the launcher batch
CopyUpdater_BatFirst == pc = "copy_updater" /\ Copy("source_bat", "dest_bat", "copy_bat")

CopyUpdater == pc = "copy_updater" /\ Copy("source_updater", "dest_updater", "copy_bat")

\* variant: the second copy goes to the updater script again
CopyBat_WrongDest == pc = "copy_bat" /\ Copy("source_bat", "dest_updater", "read_deps")

CopyBat == pc = "copy_bat" /\ Copy("source_bat", "dest_bat", "read_deps")

\* variant: a dependency batch file that cannot be read is taken as empty
\* and written
ReadDeps_CreateWhenAbsent ==
    /\ pc = "read_deps"
    /\ \E o \in ReadOutcomes("dest_bat_deps") :
        /\ ops' = Append(ops, Op("read", "dest_bat_deps", o))
        /\ content' = IF o = "ok" THEN fs["dest_bat_deps"].content ELSE <<>>
        /\ Continue("write_deps")
    /\ UNCHANGED <<fs, fs0>>

\* the read of _update_dependencies_file; when it returns None the method
\* returns and update() prints the success line and returns True
ReadDeps ==
    /\ pc = "read_deps"
    /\ \E o \in ReadOutcomes("dest_bat_deps") :
        /\ ops' = Append(ops, Op("read", "dest_bat_deps", o))
        /\ IF o = "ok"
           THEN /\ content' = fs["dest_bat_deps"].content
                /\ Continue("write_deps")
           ELSE /\ content' = content
                /\ Finish("true", <<Success>>,
                          IF fs["dest_bat_deps"].exists THEN "read" ELSE "none")
    /\ UNCHANGED <<fs, fs0>>

\* the replace and the write of _update_dependencies_file, then the end of
\* update()
\* variant: a failed write of the dependency batch file fails the update
WriteDeps_Fatal ==
    /\ pc = "write_deps"
    /\ LET updated_content == Replace(content, OLD_CONTENT, NEW_CONTENT) IN
       \E o \in WriteOutcomes :
        /\ ops' = Append(ops, Op("write", "dest_bat_deps", o))
        /\ fs' = WriteResult("dest_bat_deps", updated_content, o)
        /\ IF o = "ok"
           THEN Finish("true", <<Success>>, "none")
           ELSE Finish("false", <<Failed("write", "dest_bat_deps")>>, "write")
    /\ UNCHANGED <<content, fs0>>

WriteDeps ==
    /\ pc = "write_deps"
    /\ LET updated_content == Replace(content, OLD_CONTENT, NEW_CONTENT) IN
       \E o \in WriteOutcomes :
        /\ ops' = Append(ops, Op("write", "dest_bat_deps", o))
        /\ fs' = WriteResult("dest_bat_deps", updated_content, o)
        /\ IF o = "ok"
           THEN Finish("true", <<Success>>, "none")
           ELSE Finish("true", <<Warning("dest_bat_deps"), Success>>, "write")
    /\ UNCHANGED <<content, fs0>>

Next ==
    \/ Call
    \/ ValidateUpdater
    \/ ValidateBat
    \/ ShouldUpdate
    \/ CopyUpdater
    \/ CopyBat
    \/ ReadDeps
    \/ WriteDeps

Spec == Init /\ [][Next]_vars

---------------------------------------------------------------------------
(* Vocabulary of the properties *)

Done == pc = "done"

\* both source artifacts existed when the invocation was called
SourcesPresent(f) == f["source_updater"].exists /\ f["source_bat"].exists

\* the first bytes of c are the legacy prefix
HasLegacyPrefix(c) ==
    /\ Len(c) >= Len(EXPECTED_BAT_PREFIX)
    /\ \A i \in 1..Len(EXPECTED_BAT_PREFIX) : c[i] = EXPECTED_BAT_PREFIX[i]

\* the sentinel existed and started with the legacy prefix
Legacy(f) == f["dest_bat"].exists /\ HasLegacyPrefix(f["dest_bat"].content)

\* the two primary destination files hold the content of their sources
PrimaryEqualSources ==
    /\ fs["dest_updater"] = File(fs0["source_updater"].content)
    /\ fs["dest_bat"] = File(fs0["source_bat"].content)

\* the operations of this invocation that can change a file
WriteOps == { i \in 1..Len(ops) : ops[i].op \in {"copy", "write"} }

NoWrites == WriteOps = {} /\ fs = fs0

LastOp == ops[Len(ops)]

---------------------------------------------------------------------------
\* C1: when both sources exist, the sentinel starts with the legacy prefix
\* and no file operation fails, update() returns true and both primary
\* destination files equal their sources.
C1_SuccessPostcondition ==
    (Done /\ SourcesPresent(fs0) /\ Legacy(fs0) /\ fault = "none")
        => (ret = "true" /\ PrimaryEqualSources)

C1_Witness ==
    /\ Done /\ SourcesPresent(fs0) /\ Legacy(fs0) /\ fault = "none"
    /\ ret = "true"
    /\ fs0["dest_updater"] # fs["dest_updater"]
    /\ fs0["dest_bat"] # fs["dest_bat"]

---------------------------------------------------------------------------
\* the sentinel read of this invocation failed
SentinelUnreadable ==
    \E i \in 1..Len(ops) : ops[i] = Op("read", "dest_bat", "fail")

\* C2: when the sentinel is absent, unreadable or does not start with the
\* legacy prefix, update() writes nothing and returns false.
C2_FailClosed ==
    (Done /\ (~Legacy(fs0) \/ SentinelUnreadable))
        => (ret = "false" /\ NoWrites)

\* what does hold in those states: nothing is written and true is not
\* returned
C2_NoWritesWhenIneligible ==
    (Done /\ (~Legacy(fs0) \/ SentinelUnreadable))
        => (ret # "true" /\ NoWrites)

---------------------------------------------------------------------------
\* the operations of this invocation on a destination path
DestOps == { i \in 1..Len(ops) : ops[i].path \in Dests }

ValidationCompleted ==
    /\ Len(ops) >= 2
    /\ ops[1] = Op("exists", "source_updater", "found")
    /\ ops[2] = Op("exists", "source_bat", "found")

\* C3: when either source artifact is missing, whatever the sentinel,
\* update() writes nothing, returns false and reports a source-missing
\* failure naming a missing path; and no destination file is touched before
\* source validation has completed.
C3_AllOrNothing ==
    /\ (Done /\ ~SourcesPresent(fs0)) =>
          /\ ret = "false"
          /\ NoWrites
          /\ \E p \in Sources :
                ~fs0[p].exists /\ out = <<Failed("source_missing", p)>>
    /\ (DestOps # {}) => (ValidationCompleted /\ \A i \in DestOps : i > 2)

\* what does hold: with a source missing nothing is written and true is not
\* returned, and validation precedes every destination operation
C3_NoWritesWhenSourceMissing ==
    /\ (Done /\ ~SourcesPresent(fs0)) => (ret # "true" /\ NoWrites)
    /\ (DestOps # {}) => (ValidationCompleted /\ \A i \in DestOps : i > 2)

---------------------------------------------------------------------------
\* invocation k started with both sources present and a legacy sentinel,
\* and neither it nor the next invocation met an I/O failure
TwoCleanRuns(k) ==
    /\ SourcesPresent(hist[k].start)
    /\ Legacy(hist[k].start)
    /\ hist[k].fault = "none"
    /\ hist[k + 1].fault = "none"

SourceBatIsLegacy(f) == HasLegacyPrefix(f["source_bat"].content)

\* C4 as stated: two failure-free runs from any valid starting state,
\* whatever the content of the sources, return true and then false.
C4_Idempotence ==
    \A k \in 1..(Len(hist) - 1) :
        TwoCleanRuns(k) => (hist[k].ret = "true" /\ hist[k + 1].ret = "false")

\* C4 amended: two failure-free runs from a valid starting state return true
\* and then false, provided the source update_comfyui.bat does not itself
\* start with the legacy prefix.
C4_IdempotenceModernSource ==
    \A k \in 1..(Len(hist) - 1) :
        (TwoCleanRuns(k) /\ ~SourceBatIsLegacy(hist[k].start))
            => (hist[k].ret = "true" /\ hist[k + 1].ret = "false")

C4_Witness ==
    /\ Len(hist) >= 2
    /\ TwoCleanRuns(1) /\ ~SourceBatIsLegacy(hist[1].start)
    /\ hist[1].ret = "true" /\ hist[2].ret = "false"
    /\ ~Legacy(hist[2].start)

---------------------------------------------------------------------------
\* the copy onto p in this invocation wrote the whole source content
Copied(p) ==
    \E i \in 1..Len(ops) :
        ops[i].op = "copy" /\ ops[i].path = p /\ ops[i].outcome \in {"ok", "stat"}

\* the copy onto p completed without error
CopySucceeded(p) == \E i \in 1..Len(ops) : ops[i] = Op("copy", p, "ok")

FilesCopied == Copied("dest_updater") /\ Copied("dest_bat")

\* the invocation ended at the eligibility check
NotNeeded == LastOp.op = "read" /\ LastOp.path = "dest_bat"

\* the invocation ended with a source reported missing
ValidationFailed == LastOp.op = "exists" /\ LastOp.outcome = "missing"

CopyFailed == LastOp.op = "copy" /\ LastOp.outcome # "ok"

\* C5 as stated: the entry point returns true iff the files were copied to
\* the destination in that invocation, and false when migration is not
\* needed or validation failed.
C5_ReturnContract ==
    Done => /\ (ret = "true") <=> FilesCopied
            /\ (NotNeeded \/ ValidationFailed) => ret = "false"

\* C5 amended: the entry point returns true iff both primary copies
\* completed without error in that invocation; it returns false when
\* migration is not needed, when a source is reported missing, and when a
\* copy fails, even if destination content was already replaced.
C5_ReturnContractCopiesSucceeded ==
    Done => /\ (ret = "true") <=>
                 (CopySucceeded("dest_updater") /\ CopySucceeded("dest_bat"))
            /\ (NotNeeded \/ ValidationFailed \/ CopyFailed) => ret = "false"

C5_Witness ==
    /\ Done /\ ret = "false"
    /\ CopyFailed /\ LastOp.path = "dest_bat"
    /\ FilesCopied
    /\ PrimaryEqualSources

---------------------------------------------------------------------------
\* C6: a failed copy is the last file operation of the invocation (it is
\* not re-attempted, a failed first copy is not followed by the second, the
\* patch step does not run), the dependency batch file is unchanged, and
\* update() returns false with a failure report.
C6_AbortOnCopyFailure ==
    \A i \in 1..Len(ops) :
        (ops[i].op = "copy" /\ ops[i].outcome # "ok") =>
            /\ i = Len(ops)
            /\ Done
            /\ ret = "false"
            /\ out = <<Failed("copy", ops[i].path)>>
            /\ fs["dest_bat_deps"] = fs0["dest_bat_deps"]

C6_Witness ==
    /\ Done /\ ret = "false"
    /\ ops[Len(ops)].op = "copy" /\ ops[Len(ops)].path = "dest_updater"
    /\ ops[Len(ops)].outcome # "ok"
    /\ fs0["dest_bat_deps"].exists
    /\ fs0["dest_bat"] = fs["dest_bat"]

---------------------------------------------------------------------------
\* the write of the dependency batch file failed in this invocation
PatchWriteFailed ==
    \E i \in 1..Len(ops) :
        ops[i].op = "write" /\ ops[i].path = "dest_bat_deps" /\ ops[i].outcome # "ok"

\* C7: when both copies succeeded, the dependency batch file was read and
\* writing it back fails, update() returns true, both primary destination
\* files equal their sources, and the only report of the failure is a
\* warning.
C7_PatchWriteFailureNonFatal ==
    (Done /\ PatchWriteFailed) =>
        /\ ret = "true"
        /\ PrimaryEqualSources
        /\ out = <<Warning("dest_bat_deps"), Success>>

C7_Witness ==
    /\ Done /\ PatchWriteFailed /\ ret = "true"
    /\ Legacy(fs0)
    /\ CopySucceeded("dest_updater") /\ CopySucceeded("dest_bat")
    /\ ops[Len(ops) - 1] = Op("read", "dest_bat_deps", "ok")

---------------------------------------------------------------------------
\* the read of the dependency batch file gave nothing in this invocation
PatchReadFailed ==
    \E i \in 1..Len(ops) : ops[i] = Op("read", "dest_bat_deps", "fail")

\* C8: when both copies succeeded and the dependency batch file is absent
\* or cannot be read, update() returns true, both primary destination files
\* equal their sources, and the dependency batch file is neither created
\* nor written.
C8_PatchOptional ==
    (Done /\ PatchReadFailed) =>
        /\ ret = "true"
        /\ PrimaryEqualSources
        /\ fs["dest_bat_deps"] = fs0["dest_bat_deps"]
        /\ \A i \in 1..Len(ops) : ops[i].op # "write"

C8_Witness ==
    /\ Done /\ PatchReadFailed /\ ret = "true"
    /\ ~fs0["dest_bat_deps"].exists /\ ~fs["dest_bat_deps"].exists
    /\ CopySucceeded("dest_updater") /\ CopySucceeded("dest_bat")

---------------------------------------------------------------------------
\* positions of c where the legacy marker occurs
Occurrences(c) ==
    { i \in 1..(Len(c) - Len(OLD_CONTENT) + 1) :
         \A j \in 1..Len(OLD_CONTENT) : c[i + j - 1] = OLD_CONTENT[j] }

\* r is c with every occurrence of the legacy marker replaced by the new
\* marker and every other byte kept, in order
IsSubstitution(c, r) ==
    LET occ == Occurrences(c)
        d == Len(OLD_CONTENT) - Len(NEW_CONTENT)
        Before(j) == Cardinality({ i \in occ : i < j })
        Inside(j) == \E i \in occ : i <= j /\ j < i + Len(OLD_CONTENT)
    IN  /\ Len(r) = Len(c) - d * Cardinality(occ)
        /\ \A j \in 1..Len(c) : ~Inside(j) => r[j - d * Before(j)] = c[j]
        /\ \A i \in occ : \A k \in 1..Len(NEW_CONTENT) :
              r[i - d * Before(i) + k - 1] = NEW_CONTENT[k]

\* the dependency batch file was read and written back in this invocation
Patched == Len(ops) >= 1 /\ LastOp = Op("write", "dest_bat_deps", "ok")

\* C9: after a successful migration that read and wrote the dependency
\* batch file, its content is the original with every occurrence of the
\* legacy marker replaced by the new marker and no other byte altered; with
\* exactly one occurrence exactly that one is replaced, and with none the
\* content is kept.
C9_ByteExactSubstitution ==
    (Done /\ ret = "true" /\ Patched) =>
        LET c == fs0["dest_bat_deps"].content
            r == fs["dest_bat_deps"].content
            occ == Occurrences(c)
        IN  /\ fs["dest_bat_deps"].exists
            /\ IsSubstitution(c, r)
            /\ occ = {} => r = c
            /\ \A i \in occ : occ = {i} =>
                  r = SubSeq(c, 1, i - 1) \o NEW_CONTENT
                        \o SubSeq(c, i + Len(OLD_CONTENT), Len(c))

C9_Witness ==
    /\ Done /\ ret = "true" /\ Patched
    /\ Cardinality(Occurrences(fs0["dest_bat_deps"].content)) = 2
    /\ Len(fs0["dest_bat_deps"].content) > 2 * Len(OLD_CONTENT)
    /\ Occurrences(fs["dest_bat_deps"].content) = {}

---------------------------------------------------------------------------
\* C10: in every state of every invocation, whatever fails, both source
\* artifacts are as they were when the invocation was called; only the two
\* primary destination files and the dependency batch file can differ.
C10_Frame ==
    \A p \in Paths :
        fs[p] # fs0[p] => p \in {"dest_updater", "dest_bat", "dest_bat_deps"}

C10_Witness ==
    /\ Done /\ fault = "copy"
    /\ fs["dest_updater"] # fs0["dest_updater"]
    /\ fs["dest_bat"] # fs0["dest_bat"]
    /\ fs["source_updater"] = fs0["source_updater"]
    /\ fs["source_bat"] = fs0["source_bat"]

---------------------------------------------------------------------------
\* C11: every invocation of update() ends by returning a boolean, whatever
\* file operation fails; none ends in an uncaught exception.
C11_NoEscape == Done => ret \in {"true", "false"}

\* what does hold: only a failed source existence check escapes
C11_OnlyExistsEscapes ==
    (Done /\ ret \notin {"true", "false"}) =>
        (ret = "raised" /\ LastOp.op = "exists" /\ LastOp.outcome = "error")

---------------------------------------------------------------------------
\* the file system f is what one failure-free invocation leaves of g: both
\* primary destinations hold their sources and the dependency batch file,
\* when there is one, has every legacy marker substituted
MigrationOf(g, f) ==
    /\ f["dest_updater"] = File(g["source_updater"].content)
    /\ f["dest_bat"] = File(g["source_bat"].content)
    /\ f["dest_bat_deps"].exists = g["dest_bat_deps"].exists
    /\ IsSubstitution(g["dest_bat_deps"].content, f["dest_bat_deps"].content)

\* the invocation before the current one failed in the copy step and the
\* current one finished without any I/O failure
RerunAfterCopyFailure ==
    /\ Done /\ Len(hist) >= 2
    /\ hist[Len(hist) - 1].fault = "copy"
    /\ fault = "none"

\* C12: an invocation without I/O failure that follows one that failed in
\* the copy step returns true and leaves the two primary destination files
\* and the dependency batch file as a single failure-free invocation from
\* the original state would have.
C12_RerunConverges ==
    RerunAfterCopyFailure =>
        (ret = "true" /\ MigrationOf(hist[Len(hist) - 1].start, fs))

\* what does hold: the re-run converges when the failed invocation left the
\* sentinel as it was
C12_RerunConvergesSentinelIntact ==
    (RerunAfterCopyFailure /\ fs0["dest_bat"] = hist[Len(hist) - 1].start["dest_bat"])
        => (ret = "true" /\ MigrationOf(hist[Len(hist) - 1].start, fs))

---------------------------------------------------------------------------
Printed(kind) == \E i \in 1..Len(out) : out[i].kind = kind

\* C13: an invocation prints the success line iff it returns true; it
\* prints an 'Update failed' line iff it aborted on a missing source or a
\* failed copy; an ineligible run returns false and prints nothing; the
\* write warning and an 'Update failed' line never come from the same
\* invocation.
C13_Diagnostics ==
    /\ Done =>
          /\ Printed("success") <=> ret = "true"
          /\ Printed("failed") <=> (ValidationFailed \/ CopyFailed)
          /\ NotNeeded => (ret = "false" /\ out = <<>>)
    /\ ~(Printed("warning") /\ Printed("failed"))

C13_Witness ==
    /\ Done /\ ret = "true"
    /\ Printed("warning") /\ Printed("success") /\ ~Printed("failed")
    /\ Len(hist) >= 2
    /\ hist[Len(hist) - 1].fault = "copy"

---------------------------------------------------------------------------
\* position in ops of the copy onto p, or 0
CopyAt(p) ==
    IF \E i \in 1..Len(ops) : ops[i].op = "copy" /\ ops[i].path = p
    THEN CHOOSE i \in 1..Len(ops) : ops[i].op = "copy" /\ ops[i].path = p
    ELSE 0

\* C14: in every state of update() the sentinel has been overwritten, or
\* its copy attempted, only after update/update.py was overwritten
\* successfully in the same invocation; the launcher batch is never new
\* while the updater script is old.
C14_SentinelLast ==
    /\ (CopyAt("dest_bat") # 0 \/ fs["dest_bat"] # fs0["dest_bat"]) =>
          /\ CopyAt("dest_updater") # 0
          /\ CopyAt("dest_updater") < CopyAt("dest_bat")
          /\ ops[CopyAt("dest_updater")].outcome = "ok"
          /\ fs["dest_updater"] = File(fs0["source_updater"].content)
    /\ (fs["dest_updater"] # fs0["dest_updater"]
            /\ fs["dest_updater"] # File(fs0["source_updater"].content))
          => fs["dest_bat"] = fs0["dest_bat"]

C14_Witness ==
    /\ Done /\ ret = "false" /\ fault = "copy"
    /\ fs["dest_updater"] = File(fs0["source_updater"].content)
    /\ fs["dest_updater"] # fs0["dest_updater"]
    /\ fs["dest_bat"] = fs0["dest_bat"]
    /\ CopyAt("dest_bat") # 0

---------------------------------------------------------------------------
\* a finished invocation returned true although its write of the
\* dependency batch file failed, with a source launcher batch that does not
\* start with the legacy prefix
LostPatch ==
    \E k \in 1..Len(hist) :
        /\ hist[k].ret = "true"
        /\ hist[k].fault = "write"
        /\ ~SourceBatIsLegacy(hist[k].start)

\* C15: once an invocation has returned true with a failed write of the
\* dependency batch file (the source launcher batch not starting with the
\* legacy prefix), no step of any later invocation changes the dependency
\* batch file.
C15_LostPatch ==
    [][LostPatch => fs'["dest_bat_deps"] = fs["dest_bat_deps"]]_vars

C15_Witness ==
    /\ Done /\ Len(hist) >= 2
    /\ hist[1].ret = "true" /\ hist[1].fault = "write"
    /\ ~SourceBatIsLegacy(hist[1].start)
    /\ ret = "false" /\ fault = "none"
    /\ Occurrences(fs["dest_bat_deps"].content) # {}
    /\ fs["dest_bat_deps"] = hist[1].start["dest_bat_deps"]

====
